---- MODULE Spec2Model ----
(***************************************************************************)
(* mdweaver (md2pdf/generate_pdf.py): the markdown normalizer              *)
(* preprocess_markdown, the file collector get_md_files and the two        *)
(* document assemblers generate_pdf / generate_epub driven by main.        *)
(*                                                                         *)
(* Text is a sequence of one-character strings; a path is a sequence of    *)
(* names.  Spec runs preprocess_markdown line by line (and then once more  *)
(* on its own result); SpecRun runs main over a small file system.         *)
(***************************************************************************)
EXTENDS Integers, Sequences, FiniteSets, TLC

\* ------------------------------------------------------------------ bounds
\* longest single-line text enumerated character by character
MaxLen == 7
\* most lines of a text assembled from LineVocab
MaxLines == 3

\* ------------------------------------------------------------- characters
NL == "\n"
\* the backtick character U+0060 (the lexer of TLA+ accepts no backtick in a string)
BT == "BACKTICK"
Upper == {"A", "B", "C", "D", "E", "F", "G", "H", "I", "J", "K", "L", "M",
          "N", "O", "P", "Q", "R", "S", "T", "U", "V", "W", "X", "Y", "Z"}
Digit == {"0", "1", "2", "3", "4", "5", "6", "7", "8", "9"}
\* str.strip() with no argument strips whitespace
Whitespace == {" ", "\t", "\r", "\n"}

LT_ENTITY == <<"&", "l", "t", ";">>
GT_ENTITY == <<"&", "g", "t", ";">>

\* ---------------------------------------------------------- str primitives
\* str.startswith(prefix)
startswith(s, prefix) ==
    /\ Len(s) >= Len(prefix)
    /\ SubSeq(s, 1, Len(prefix)) = prefix

\* str.endswith(suffix)
endswith(s, suffix) ==
    /\ Len(s) >= Len(suffix)
    /\ SubSeq(s, Len(s) - Len(suffix) + 1, Len(s)) = suffix

\* str.strip(): drop leading and trailing whitespace
RECURSIVE lstrip(_)
lstrip(s) ==
    IF s # <<>> /\ Head(s) \in Whitespace THEN lstrip(Tail(s)) ELSE s

RECURSIVE rstrip(_)
rstrip(s) ==
    IF s # <<>> /\ s[Len(s)] \in Whitespace
    THEN rstrip(SubSeq(s, 1, Len(s) - 1))
    ELSE s

strip(s) == rstrip(lstrip(s))

\* str.split("\n"): always at least one piece, "" gives [""]
RECURSIVE split_nl(_, _, _)
split_nl(s, k, cur) ==
    IF k > Len(s) THEN <<cur>>
    ELSE IF s[k] = NL THEN <<cur>> \o split_nl(s, k + 1, <<>>)
    ELSE split_nl(s, k + 1, Append(cur, s[k]))

split(s) == split_nl(s, 1, <<>>)

\* "\n".join(seq)
RECURSIVE join(_)
join(ls) ==
    IF ls = <<>> THEN <<>>
    ELSE IF Len(ls) = 1 THEN ls[1]
    ELSE ls[1] \o <<NL>> \o join(Tail(ls))

\* "".join(seq)
RECURSIVE concat(_)
concat(ps) ==
    IF ps = <<>> THEN <<>> ELSE Head(ps) \o concat(Tail(ps))

\* ------------------------------------------------------------------ regexes
\* positions q > p of character c in s
After(s, p, c) == {q \in (p + 1)..Len(s) : s[q] = c}

Min(S) == CHOOSE x \in S : \A y \in S : x <= y

\* the pattern (BT [^BT]+ BT) matches at p: a backtick, at least one
\* non-backtick, a backtick
CodeSpanAt(s, p) ==
    /\ p + 2 <= Len(s)
    /\ s[p] = BT
    /\ s[p + 1] # BT
    /\ After(s, p + 1, BT) # {}

\* re.split on that pattern with its capture group: text, span, text, ..., text
RECURSIVE re_split_code(_, _, _)
re_split_code(s, k, cur) ==
    IF k > Len(s) THEN <<cur>>
    ELSE IF CodeSpanAt(s, k)
         THEN LET q == Min(After(s, k + 1, BT))
              IN  <<cur, SubSeq(s, k, q)>> \o re_split_code(s, q + 1, <<>>)
         ELSE re_split_code(s, k + 1, Append(cur, s[k]))

\* the pattern without its [A-Z]: any character may follow the '<'
GenericAt_AnyChar(s, p) ==
    /\ p + 2 <= Len(s)
    /\ s[p] = "<"
    /\ s[p + 1] # ">"
    /\ After(s, p + 1, ">") # {}

\* r"<([A-Z][^>]*)>" matches at p: '<', an uppercase letter, up to the next '>'
GenericAt(s, p) ==
    /\ p + 2 <= Len(s)
    /\ s[p] = "<"
    /\ s[p + 1] \in Upper
    /\ After(s, p + 1, ">") # {}

\* the substitution with a replacement that leaves out the group: &lt;&gt;
RECURSIVE re_sub_generic_no_group(_, _)
re_sub_generic_no_group(s, k) ==
    IF k > Len(s) THEN <<>>
    ELSE IF GenericAt(s, k)
         THEN LET q == Min(After(s, k + 1, ">"))
              IN  LT_ENTITY \o GT_ENTITY \o re_sub_generic_no_group(s, q + 1)
         ELSE <<s[k]>> \o re_sub_generic_no_group(s, k + 1)

\* re.sub(r"<([A-Z][^>]*)>", r"&lt;\1&gt;", part): leftmost, non-overlapping
RECURSIVE re_sub_generic(_, _)
re_sub_generic(s, k) ==
    IF k > Len(s) THEN <<>>
    ELSE IF GenericAt(s, k)
         THEN LET q == Min(After(s, k + 1, ">"))
              IN  LT_ENTITY \o SubSeq(s, k + 1, q - 1) \o GT_ENTITY
                    \o re_sub_generic(s, q + 1)
         ELSE <<s[k]>> \o re_sub_generic(s, k + 1)

\* re.match(r"^\d+\. ", line): digits, a dot, a space
RECURSIVE digits_then_dot(_, _)
digits_then_dot(s, k) ==
    IF k > Len(s) THEN FALSE
    ELSE IF s[k] \in Digit THEN digits_then_dot(s, k + 1)
    ELSE k > 1 /\ s[k] = "." /\ k + 1 <= Len(s) /\ s[k + 1] = " "

is_numbered(s) == digits_then_dot(s, 1)

is_bullet(s) == startswith(s, <<"-", " ">>)

\* the fence test without the strip: an indented fence is missed
is_fence_no_strip(line) == startswith(line, <<BT, BT, BT>>)

\* line.strip().startswith(three backticks)
is_fence(line) == startswith(strip(line), <<BT, BT, BT>>)

\* the substitution applied to code spans too
escape_part_all(part) == re_sub_generic(part, 1)

\* lines 59-70: escape generics in the parts that are not code spans
escape_part(part) ==
    IF startswith(part, <<BT>>) /\ endswith(part, <<BT>>)
    THEN part
    ELSE re_sub_generic(part, 1)

escape_line(line) ==
    LET parts == re_split_code(line, 1, <<>>)
    IN  concat([k \in 1..Len(parts) |-> escape_part(parts[k])])

\* the check without its numbered-list alternative
needs_blank_bullets_only(idx, line, out) ==
    /\ idx > 0
    /\ is_bullet(line)
    /\ LET prev_line == IF out # <<>> THEN out[Len(out)] ELSE <<>>
       IN  /\ strip(prev_line) # <<>>
           /\ ~is_bullet(prev_line)
           /\ ~is_numbered(prev_line)
           /\ ~startswith(prev_line, <<"#">>)

\* the check without its exception for a blank previous line
needs_blank_after_blank(idx, line, out) ==
    /\ idx > 0
    /\ (is_bullet(line) \/ is_numbered(line))
    /\ LET prev_line == IF out # <<>> THEN out[Len(out)] ELSE <<>>
       IN  /\ ~is_bullet(prev_line)
           /\ ~is_numbered(prev_line)
           /\ ~startswith(prev_line, <<"#">>)

\* the check without its header exception
needs_blank_after_header(idx, line, out) ==
    /\ idx > 0
    /\ (is_bullet(line) \/ is_numbered(line))
    /\ LET prev_line == IF out # <<>> THEN out[Len(out)] ELSE <<>>
       IN  /\ strip(prev_line) # <<>>
           /\ ~is_bullet(prev_line)
           /\ ~is_numbered(prev_line)

\* lines 74-82: a blank line goes before this (already escaped) line
needs_blank(idx, line, out) ==
    /\ idx > 0
    /\ (is_bullet(line) \/ is_numbered(line))
    /\ LET prev_line == IF out # <<>> THEN out[Len(out)] ELSE <<>>
       IN  /\ strip(prev_line) # <<>>
           /\ ~is_bullet(prev_line)
           /\ ~is_numbered(prev_line)
           /\ ~startswith(prev_line, <<"#">>)

\* lines 56-84: what a line outside fenced code adds to the output
text_out(idx, raw, out) ==
    LET line == escape_line(raw)
    IN  IF needs_blank(idx, line, out)
        THEN out \o <<<<>>, line>>
        ELSE Append(out, line)

\* lines 49-84: the loop from line k + 1 on
RECURSIVE loop_from(_, _, _, _)
loop_from(ls, k, flag, out) ==
    IF k = Len(ls) THEN out
    ELSE IF is_fence(ls[k + 1])
         THEN loop_from(ls, k + 1, ~flag, Append(out, ls[k + 1]))
         ELSE IF flag
              THEN loop_from(ls, k + 1, flag, Append(out, ls[k + 1]))
              ELSE loop_from(ls, k + 1, flag, text_out(k, ls[k + 1], out))

\* lines 35-86 as a function of the text
preprocess_markdown(text) == join(loop_from(split(text), 0, FALSE, <<>>))

\* --------------------------------------------------------------- the inputs
\* characters of the texts enumerated exhaustively (one line each)
EscAlphabet == {"<", ">", "A", BT}

\* lines of the texts assembled line by line: paragraph, empty, blank,
\* bullet, numbered, header, fence, indented fence with a language tag,
\* generic, bullet with generic
LineVocab ==
    { <<"a">>, <<>>, <<" ">>,
      <<"-", " ", "a">>, <<"1", ".", " ", "a">>, <<"#", "a">>,
      <<BT, BT, BT>>, <<" ", BT, BT, BT, "a">>,
      <<"<", "A", ">">>, <<"-", " ", "<", "A", ">">> }

CharTexts == UNION {[1..n -> EscAlphabet] : n \in 0..MaxLen}

VocabTexts ==
    {join(ls) : ls \in UNION {[1..n -> LineVocab] : n \in 1..MaxLines}}

Inputs == CharTexts \cup VocabTexts

\* -------------------------------------------------------------------- state
VARIABLES
    input,            \* the text handed to the first call
    md_content,       \* preprocess_markdown: the argument of the running call
    lines,            \* md_content.split("\n")
    i,                \* number of lines the loop has consumed
    in_code_block,    \* the fenced-code flag
    processed_lines,  \* the output lines so far
    result,           \* the returned text
    first_out,        \* what the first call returned, once it is fed back
    pass,             \* 1: first call, 2: call on the first call's result
    pc                \* "call", "loop", "returned"

normVars == <<input, md_content, lines, i, in_code_block, processed_lines,
              result, first_out, pass, pc>>

VARIABLES
    fs,               \* the file system: [file |-> paths, dir |-> paths]
    input_path,       \* main: Path(args.input).resolve(); the path argument
    recursive,        \* get_md_files: its recursive argument
    fmt,              \* main: args.format
    version_file,     \* the EXPORT_VERSION file: [exists, text]
    rpc,              \* where the run is
    gen,              \* the generator running: "none", "pdf", "epub"
    version,          \* generate_*: version
    md_files,         \* generate_*: md_files
    file_idx,         \* generate_*: number of files the loop has converted
    sections,         \* generate_pdf: html_sections; generate_epub: chapters
    artifacts,        \* the files written, in order: [kind, file, body]
    returned,         \* the paths the generators returned
    stdout,           \* what was printed
    out_dir_made,     \* output_dir.mkdir(...) has run
    exit_status,      \* the process's exit status, -1 while it runs
    collected         \* what a direct call of get_md_files returned

runVars == <<fs, input_path, recursive, fmt, version_file, rpc, gen, version,
             md_files, file_idx, sections, artifacts, returned, stdout,
             out_dir_made, exit_status, collected>>

vars == <<normVars, runVars>>

\* the collector and the generators are not running
RunIdle ==
    /\ fs = [file |-> {}, dir |-> {}]
    /\ input_path = <<>>
    /\ recursive = TRUE
    /\ fmt = "pdf"
    /\ version_file = [exists |-> FALSE, text |-> <<>>]
    /\ rpc = "idle"
    /\ gen = "none"
    /\ version = <<>>
    /\ md_files = <<>>
    /\ file_idx = 0
    /\ sections = <<>>
    /\ artifacts = <<>>
    /\ returned = <<>>
    /\ stdout = <<>>
    /\ out_dir_made = FALSE
    /\ exit_status = -1
    /\ collected = <<>>

\* preprocess_markdown is not running
NormIdle ==
    /\ input = <<>>
    /\ md_content = <<>>
    /\ lines = <<>>
    /\ i = 0
    /\ in_code_block = FALSE
    /\ processed_lines = <<>>
    /\ result = <<>>
    /\ first_out = <<>>
    /\ pass = 1
    /\ pc = "idle"

Init ==
    /\ input \in Inputs
    /\ md_content = input
    /\ lines = <<>>
    /\ i = 0
    /\ in_code_block = FALSE
    /\ processed_lines = <<>>
    /\ result = <<>>
    /\ first_out = <<>>
    /\ pass = 1
    /\ pc = "call"
    /\ RunIdle

\* lines 45-47
Enter ==
    /\ pc = "call"
    /\ lines' = split(md_content)
    /\ i' = 0
    /\ in_code_block' = FALSE
    /\ processed_lines' = <<>>
    /\ pc' = "loop"
    /\ UNCHANGED <<input, md_content, result, first_out, pass>>
    /\ UNCHANGED runVars

\* lines 51-54: a fence line toggles the flag and is appended as it is
FenceLine ==
    /\ pc = "loop"
    /\ i < Len(lines)
    /\ is_fence(lines[i + 1])
    /\ in_code_block' = ~in_code_block
    /\ processed_lines' = Append(processed_lines, lines[i + 1])
    /\ i' = i + 1
    /\ UNCHANGED <<input, md_content, lines, result, first_out, pass, pc>>
    /\ UNCHANGED runVars

\* the loop without the in_code_block test of line 56
CodeLine_AsText ==
    /\ pc = "loop"
    /\ i < Len(lines)
    /\ ~is_fence(lines[i + 1])
    /\ in_code_block
    /\ processed_lines' = text_out(i, lines[i + 1], processed_lines)
    /\ i' = i + 1
    /\ UNCHANGED <<input, md_content, lines, in_code_block, result,
                   first_out, pass, pc>>
    /\ UNCHANGED runVars

\* lines 56, 84: inside a fenced block the line is appended as it is
CodeLine ==
    /\ pc = "loop"
    /\ i < Len(lines)
    /\ ~is_fence(lines[i + 1])
    /\ in_code_block
    /\ processed_lines' = Append(processed_lines, lines[i + 1])
    /\ i' = i + 1
    /\ UNCHANGED <<input, md_content, lines, in_code_block, result,
                   first_out, pass, pc>>
    /\ UNCHANGED runVars

\* lines 56-84: outside a fenced block the line is escaped and a list line
\* gets a blank line before it when the previous output line asks for one
TextLine ==
    /\ pc = "loop"
    /\ i < Len(lines)
    /\ ~is_fence(lines[i + 1])
    /\ ~in_code_block
    /\ processed_lines' = text_out(i, lines[i + 1], processed_lines)
    /\ i' = i + 1
    /\ UNCHANGED <<input, md_content, lines, in_code_block, result,
                   first_out, pass, pc>>
    /\ UNCHANGED runVars

\* line 86
Return ==
    /\ pc = "loop"
    /\ i = Len(lines)
    /\ result' = join(processed_lines)
    /\ pc' = "returned"
    /\ UNCHANGED <<input, md_content, lines, i, in_code_block,
                   processed_lines, first_out, pass>>
    /\ UNCHANGED runVars

\* the caller applies preprocess_markdown to the text it returned
Reapply ==
    /\ pc = "returned"
    /\ pass = 1
    /\ first_out' = result
    /\ md_content' = result
    /\ pass' = 2
    /\ pc' = "call"
    /\ UNCHANGED <<input, lines, i, in_code_block, processed_lines, result>>
    /\ UNCHANGED runVars

Next ==
    \/ Enter
    \/ FenceLine
    \/ CodeLine
    \/ TextLine
    \/ Return
    \/ Reapply

Spec == Init /\ [][Next]_vars

\* ------------------------------------------------------- paths and names
\* a name is a sequence of characters, a path a sequence of names
N_d == <<"d">>
N_a == <<"a">>
N_a_md == <<"a", ".", "m", "d">>
N_B_MD == <<"B", ".", "M", "D">>
N_dot_md == <<".", "m", "d">>
N_n_txt == <<"n", ".", "t", "x", "t">>
N_b_md == <<"b", ".", "m", "d">>
N_c_md == <<"c", ".", "m", "d">>
N_e_md == <<"e", ".", "m", "d">>

\* the code point of a character (those that occur in the names)
Code(c) ==
    CASE c = "-" -> 45 [] c = "." -> 46 [] c = "/" -> 47
      [] c = "0" -> 48 [] c = "1" -> 49 [] c = "2" -> 50
      [] c = "B" -> 66 [] c = "D" -> 68 [] c = "M" -> 77 [] c = "_" -> 95
      [] c = "a" -> 97 [] c = "b" -> 98 [] c = "c" -> 99 [] c = "d" -> 100
      [] c = "e" -> 101 [] c = "m" -> 109 [] c = "n" -> 110
      [] c = "o" -> 111 [] c = "t" -> 116 [] c = "u" -> 117
      [] c = "v" -> 118 [] c = "x" -> 120

\* str < str: by code point, a proper prefix first
StrLess(s, t) ==
    \E n \in 1..(Len(t)) :
        /\ n <= Len(s) + 1
        /\ SubSeq(s, 1, n - 1) = SubSeq(t, 1, n - 1)
        /\ n = Len(s) + 1 \/ Code(s[n]) < Code(t[n])

\* Path < Path (PurePosixPath.__lt__): the tuples of parts, part by part
PathLess(p, q) ==
    \E n \in 1..(Len(q)) :
        /\ n <= Len(p) + 1
        /\ SubSeq(p, 1, n - 1) = SubSeq(q, 1, n - 1)
        /\ n = Len(p) + 1 \/ StrLess(p[n], q[n])

\* str(path)
RECURSIVE path_str(_)
path_str(p) ==
    IF p = <<>> THEN <<>> ELSE <<"/">> \o Head(p) \o path_str(Tail(p))

\* str.lower()
lower_char(c) ==
    CASE c = "B" -> "b" [] c = "D" -> "d" [] c = "M" -> "m" [] OTHER -> c

lower(s) == [n \in 1..Len(s) |-> lower_char(s[n])]

\* name.rfind("."), 1-based, 0 when there is none
rfind_dot(nm) ==
    LET dots == {n \in 1..Len(nm) : nm[n] = "."}
    IN  IF dots = {} THEN 0 ELSE CHOOSE n \in dots : \A m \in dots : m <= n

\* PurePath.suffix: from the last dot on, unless it leads or ends the name
suffix(nm) ==
    LET d == rfind_dot(nm)
    IN  IF 1 < d /\ d < Len(nm) THEN SubSeq(nm, d, Len(nm)) ELSE <<>>

\* PurePath.stem
stem(nm) ==
    LET d == rfind_dot(nm)
    IN  IF 1 < d /\ d < Len(nm) THEN SubSeq(nm, 1, d - 1) ELSE nm

\* PurePath.name
path_name(p) == p[Len(p)]

exists(p) == p \in fs.file \cup fs.dir
is_file(p) == p \in fs.file

\* fnmatch of a name against *.md (POSIX: case-sensitive, a leading dot is
\* no exception)
matches_md(nm) == endswith(nm, <<".", "m", "d">>)

\* path.glob("**/*.md") or path.glob("*.md")
glob_md(path, rec) ==
    {p \in fs.file \cup fs.dir :
        /\ path \in fs.dir
        /\ Len(p) > Len(path)
        /\ SubSeq(p, 1, Len(path)) = path
        /\ rec \/ Len(p) = Len(path) + 1
        /\ matches_md(path_name(p))}

\* sorted(paths)
RECURSIVE sorted_paths(_)
sorted_paths(S) ==
    IF S = {} THEN <<>>
    ELSE LET m == CHOOSE x \in S : \A y \in S \ {x} : PathLess(x, y)
         IN  <<m>> \o sorted_paths(S \ {m})

\* lines 89-106
get_md_files(path, rec) ==
    IF is_file(path)
    THEN IF lower(suffix(path_name(path))) = <<".", "m", "d">>
         THEN <<path>>
         ELSE <<>>
    ELSE SelectSeq(sorted_paths(glob_md(path, rec)), is_file)

\* the version as read without strip()
get_export_version_raw ==
    IF version_file.exists THEN version_file.text ELSE <<"0", ".", "0">>

\* lines 27-32
get_export_version ==
    IF version_file.exists THEN strip(version_file.text) ELSE <<"0", ".", "0">>

\* md_file.read_text(): each file holds its own name as a paragraph and, on
\* the next line, a bullet item with a generic
read_text(f) == path_name(f) \o <<NL, "-", " ", "<", "A", ">">>

\* lines 109-128: the markdown renderer (an external library) applied to the
\* preprocessed text
convert_md_to_html(text) == <<"html", preprocess_markdown(text)>>

\* Path(args.output), default "output"
output_dir == << <<"o", "u", "t">> >>

\* lines 471, 578
doc_name ==
    IF is_file(input_path) THEN stem(path_name(input_path))
    ELSE path_name(input_path)

\* lines 542, 614: output_dir / f"{name}_v{version}.{ext}"
output_file(ext) ==
    Append(output_dir, doc_name \o <<"_", "v">> \o version \o <<".">> \o ext)

EXT_PDF == <<"p", "d", "f">>
EXT_EPUB == <<"e", "p", "u", "b">>

\* ------------------------------------------------------------ the file systems
FileCands ==
    { <<N_d, N_a_md>>, <<N_d, N_B_MD>>, <<N_d, N_dot_md>>, <<N_d, N_n_txt>>,
      <<N_d, N_a, N_b_md>>, <<N_d, N_c_md, N_e_md>> }

DirCands == { <<N_d>>, <<N_d, N_a>>, <<N_d, N_c_md>> }

parent(p) == SubSeq(p, 1, Len(p) - 1)

FileSystems ==
    {t \in [file : SUBSET FileCands, dir : SUBSET DirCands] :
        \A p \in t.file \cup t.dir : Len(p) > 1 => parent(p) \in t.dir}

VersionFiles ==
    { [exists |-> FALSE, text |-> <<>>],
      [exists |-> TRUE, text |-> <<"1", ".", "2", NL>>],
      [exists |-> TRUE, text |-> <<" ", "2", " ">>],
      [exists |-> TRUE, text |-> <<>>] }

\* ------------------------------------------------------------------ the run
\* a direct call of get_md_files, or a run of main
InitRun ==
    /\ NormIdle
    /\ fs \in FileSystems
    /\ input_path \in FileCands \cup DirCands
    /\ \/ /\ rpc = "call"
          /\ recursive \in BOOLEAN
          /\ fmt = "pdf"
          /\ version_file = [exists |-> FALSE, text |-> <<>>]
       \/ /\ rpc = "main"
          /\ recursive = TRUE
          /\ fmt \in {"pdf", "epub", "both"}
          /\ version_file \in VersionFiles
    /\ gen = "none"
    /\ version = <<>>
    /\ md_files = <<>>
    /\ file_idx = 0
    /\ sections = <<>>
    /\ artifacts = <<>>
    /\ returned = <<>>
    /\ stdout = <<>>
    /\ out_dir_made = FALSE
    /\ exit_status = -1
    /\ collected = <<>>

\* lines 89-106: get_md_files(path, recursive) called directly
CallGetMdFiles ==
    /\ rpc = "call"
    /\ collected' = get_md_files(input_path, recursive)
    /\ rpc' = "called"
    /\ UNCHANGED <<fs, input_path, recursive, fmt, version_file, gen, version,
                   md_files, file_idx, sections, artifacts, returned, stdout,
                   out_dir_made, exit_status>>
    /\ UNCHANGED normVars

\* lines 656-665: main picks the first generator
Main ==
    /\ rpc = "main"
    /\ gen' = IF fmt \in {"pdf", "both"} THEN "pdf" ELSE "epub"
    /\ rpc' = "start"
    /\ UNCHANGED <<fs, input_path, recursive, fmt, version_file, version,
                   md_files, file_idx, sections, artifacts, returned, stdout,
                   out_dir_made, exit_status, collected>>
    /\ UNCHANGED normVars

\* lines 458-462 and 565-569: read the version, then the path must exist
GenStart(g) ==
    /\ rpc = "start"
    /\ gen = g
    /\ version' = get_export_version
    /\ IF ~exists(input_path)
       THEN /\ stdout' = Append(stdout, "Error: Path not found")
            /\ exit_status' = 1
            /\ rpc' = "exited"
       ELSE /\ rpc' = "collect"
            /\ UNCHANGED <<stdout, exit_status>>
    /\ UNCHANGED <<fs, input_path, recursive, fmt, version_file, gen,
                   md_files, file_idx, sections, artifacts, returned,
                   out_dir_made, collected>>
    /\ UNCHANGED normVars

\* the collection without the check of lines 466-468 and 573-575
GenCollect_NoCheck(g) ==
    /\ rpc = "collect"
    /\ gen = g
    /\ md_files' = get_md_files(input_path, TRUE)
    /\ stdout' = Append(stdout, "Found")
    /\ file_idx' = 0
    /\ sections' = <<>>
    /\ rpc' = "convert"
    /\ UNCHANGED exit_status
    /\ UNCHANGED <<fs, input_path, recursive, fmt, version_file, gen, version,
                   artifacts, returned, out_dir_made, collected>>
    /\ UNCHANGED normVars

\* lines 464-474 and 571-584: collect the files; there must be one
GenCollect(g) ==
    /\ rpc = "collect"
    /\ gen = g
    /\ md_files' = get_md_files(input_path, TRUE)
    /\ IF md_files' = <<>>
       THEN /\ stdout' = Append(stdout, "Error: No markdown files found")
            /\ exit_status' = 1
            /\ rpc' = "exited"
            /\ UNCHANGED <<file_idx, sections>>
       ELSE /\ stdout' = Append(stdout, "Found")
            /\ file_idx' = 0
            /\ sections' = <<>>
            /\ rpc' = "convert"
            /\ UNCHANGED exit_status
    /\ UNCHANGED <<fs, input_path, recursive, fmt, version_file, gen, version,
                   artifacts, returned, out_dir_made, collected>>
    /\ UNCHANGED normVars

\* lines 458-462
EpubStart == GenStart("epub")

\* lines 464-474
EpubCollect == GenCollect("epub")

\* lines 505-528: one file becomes one chapter
EpubConvert ==
    /\ rpc = "convert"
    /\ gen = "epub"
    /\ file_idx < Len(md_files)
    /\ LET md_file == md_files[file_idx + 1]
           html_content == convert_md_to_html(read_text(md_file))
       IN  sections' = Append(sections,
                              <<"chapter", file_idx + 1, html_content>>)
    /\ stdout' = Append(stdout, "Processing")
    /\ file_idx' = file_idx + 1
    /\ UNCHANGED <<fs, input_path, recursive, fmt, version_file, rpc, gen,
                   version, md_files, artifacts, returned, out_dir_made,
                   exit_status, collected>>
    /\ UNCHANGED normVars

\* lines 530-548: toc and spine, mkdir, write_epub, return (the title, the
\* CSS and the metadata of lines 472-501 are payload the run never reads back)
EpubWrite ==
    /\ rpc = "convert"
    /\ gen = "epub"
    /\ file_idx = Len(md_files)
    /\ out_dir_made' = TRUE
    /\ artifacts' = Append(artifacts,
                           [kind |-> "epub",
                            file |-> output_file(EXT_EPUB),
                            body |-> << <<"nav">> >> \o sections])
    /\ stdout' = stdout \o <<"Generating", "generated successfully">>
    /\ returned' = Append(returned, output_file(EXT_EPUB))
    /\ rpc' = "gen_done"
    /\ UNCHANGED <<fs, input_path, recursive, fmt, version_file, gen, version,
                   md_files, file_idx, sections, exit_status, collected>>
    /\ UNCHANGED normVars

\* lines 565-569
PdfStart == GenStart("pdf")

\* lines 571-584
PdfCollect == GenCollect("pdf")

\* the loop putting each new section in front of the earlier ones
PdfConvert_Prepend ==
    /\ rpc = "convert"
    /\ gen = "pdf"
    /\ file_idx < Len(md_files)
    /\ LET md_file == md_files[file_idx + 1]
           html_content == convert_md_to_html(read_text(md_file))
       IN  sections' = << <<"lesson", html_content>> >> \o sections
    /\ stdout' = Append(stdout, "Processing")
    /\ file_idx' = file_idx + 1
    /\ UNCHANGED <<fs, input_path, recursive, fmt, version_file, rpc, gen,
                   version, md_files, artifacts, returned, out_dir_made,
                   exit_status, collected>>
    /\ UNCHANGED normVars

\* lines 585-592: one file becomes one section
PdfConvert ==
    /\ rpc = "convert"
    /\ gen = "pdf"
    /\ file_idx < Len(md_files)
    /\ LET md_file == md_files[file_idx + 1]
           html_content == convert_md_to_html(read_text(md_file))
       IN  sections' = Append(sections, <<"lesson", html_content>>)
    /\ stdout' = Append(stdout, "Processing")
    /\ file_idx' = file_idx + 1
    /\ UNCHANGED <<fs, input_path, recursive, fmt, version_file, rpc, gen,
                   version, md_files, artifacts, returned, out_dir_made,
                   exit_status, collected>>
    /\ UNCHANGED normVars

\* lines 594-621: combine, mkdir, write_pdf, return (the title and the CSS
\* of lines 579, 598-608 and 617 are payload the run never reads back)
PdfWrite ==
    /\ rpc = "convert"
    /\ gen = "pdf"
    /\ file_idx = Len(md_files)
    /\ out_dir_made' = TRUE
    /\ artifacts' = Append(artifacts,
                           [kind |-> "pdf",
                            file |-> output_file(EXT_PDF),
                            body |-> sections])
    /\ stdout' = stdout \o <<"Generating", "generated successfully">>
    /\ returned' = Append(returned, output_file(EXT_PDF))
    /\ rpc' = "gen_done"
    /\ UNCHANGED <<fs, input_path, recursive, fmt, version_file, gen, version,
                   md_files, file_idx, sections, exit_status, collected>>
    /\ UNCHANGED normVars

\* lines 664-665: after generate_pdf, generate_epub runs when both are asked for
MainEpub ==
    /\ rpc = "gen_done"
    /\ gen = "pdf"
    /\ fmt = "both"
    /\ gen' = "epub"
    /\ rpc' = "start"
    /\ UNCHANGED <<fs, input_path, recursive, fmt, version_file, version,
                   md_files, file_idx, sections, artifacts, returned, stdout,
                   out_dir_made, exit_status, collected>>
    /\ UNCHANGED normVars

\* lines 665-669: main returns, the process ends with status 0
MainReturn ==
    /\ rpc = "gen_done"
    /\ gen = "epub" \/ fmt = "pdf"
    /\ exit_status' = 0
    /\ rpc' = "exited"
    /\ UNCHANGED <<fs, input_path, recursive, fmt, version_file, gen, version,
                   md_files, file_idx, sections, artifacts, returned, stdout,
                   out_dir_made, collected>>
    /\ UNCHANGED normVars

NextRun ==
    \/ CallGetMdFiles
    \/ Main
    \/ PdfStart
    \/ PdfCollect
    \/ PdfConvert
    \/ PdfWrite
    \/ MainEpub
    \/ EpubStart
    \/ EpubCollect
    \/ EpubConvert
    \/ EpubWrite
    \/ MainReturn

SpecRun == InitRun /\ [][NextRun]_vars

\* ============================================================ the normalizer
Chars(s) == {s[k] : k \in 1..Len(s)}

Occurs(sub, s) ==
    \E k \in 1..(Len(s) - Len(sub) + 1) : SubSeq(s, k, k + Len(sub) - 1) = sub

Last(s) == s[Len(s)]

\* the loop has just consumed line i, and did so outside fenced code
TextLineDone ==
    /\ pc = "loop"
    /\ i >= 1
    /\ ~is_fence(lines[i])
    /\ ~in_code_block

\* starts of the substrings '<' + uppercase + non-'>'* + '>' of s
GenStarts(s) ==
    {p \in 1..(Len(s) - 2) :
        /\ s[p] = "<"
        /\ s[p + 1] \in Upper
        /\ \E q \in (p + 2)..Len(s) : s[q] = ">"}

\* the '>' that ends the substring starting at p
GenClose(s, p) == Min({q \in (p + 2)..Len(s) : s[q] = ">"})

GenEscaped(s, p) ==
    LT_ENTITY \o SubSeq(s, p + 1, GenClose(s, p) - 1) \o GT_ENTITY

\* the starts that no earlier such substring overlaps
GenFree(s) ==
    {p \in GenStarts(s) :
        ~\E p0 \in GenStarts(s) : p0 < p /\ p < GenClose(s, p0)}

GenCloses(s) == {GenClose(s, p) : p \in GenStarts(s)}

\* s with the free substrings replaced and all else copied
EscapedForm(s) ==
    concat([k \in 1..Len(s) |->
               IF k \in GenFree(s) THEN LT_ENTITY
               ELSE IF k \in GenCloses(s) THEN GT_ENTITY
               ELSE <<s[k]>>])

\* s holds no backtick, non-backticks, backtick
NoSpan(s) ==
    ~\E p \in 1..Len(s) : \E q \in (p + 2)..Len(s) :
        /\ s[p] = BT
        /\ s[q] = BT
        /\ \A k \in (p + 1)..(q - 1) : s[k] # BT

\* C1 (as claimed): for an input without any backtick, applying
\* preprocess_markdown to its own result returns that result again.
C1_Idempotent ==
    (pc = "returned" /\ pass = 2 /\ BT \notin Chars(input))
        => result = first_out

CodeSpansOf(s) ==
    LET parts == re_split_code(s, 1, <<>>)
    IN  [k \in 1..((Len(parts) - 1) \div 2) |-> parts[2 * k]]

\* C3 (as claimed): on a line outside fenced code, every substring made of a
\* backtick, one or more non-backticks and a backtick is found unchanged in
\* the output line.
C3_EveryBacktickSubstringKept ==
    TextLineDone
        => \A p \in 1..Len(lines[i]) : \A q \in (p + 2)..Len(lines[i]) :
              (/\ lines[i][p] = BT
               /\ lines[i][q] = BT
               /\ \A k \in (p + 1)..(q - 1) : lines[i][k] # BT)
                  => Occurs(SubSeq(lines[i], p, q), Last(processed_lines))

\* C3 (amended): on a line outside fenced code, the inline code spans that
\* pairing the backticks from left to right isolates (leftmost,
\* non-overlapping backtick, non-backticks, backtick) are the code spans of
\* the output line, in the same order and unchanged.
C3_PairedSpansKept ==
    TextLineDone
        => CodeSpansOf(Last(processed_lines)) = CodeSpansOf(lines[i])

C3_Witness ==
    /\ TextLineDone
    /\ pass = 1
    /\ \E k \in 1..Len(CodeSpansOf(lines[i])) :
          GenStarts(CodeSpansOf(lines[i])[k]) # {}
    /\ Last(processed_lines) = lines[i]

\* number of fence lines before line k
FencesBefore(k) == Cardinality({j \in 1..(k - 1) : is_fence(lines[j])})

Max(S) == CHOOSE x \in S : \A y \in S : x >= y

\* the fence line that line k (a closing fence) is matched with
OpeningOf(k) == Max({j \in 1..(k - 1) : is_fence(lines[j])})

\* the loop has just consumed line i, the closing fence of a matched pair
ClosingFenceDone ==
    /\ pc = "loop"
    /\ i >= 2
    /\ is_fence(lines[i])
    /\ FencesBefore(i) % 2 = 1

\* C4: when the closing fence of a matched pair has been consumed, the output
\* ends with the lines from the opening fence to the closing fence, each
\* identical to the input line and with nothing between them.
C4_FencedRegionVerbatim ==
    ClosingFenceDone
        => LET k1 == OpeningOf(i)
               n == Len(processed_lines)
           IN  /\ n >= i - k1 + 1
               /\ SubSeq(processed_lines, n - (i - k1), n) = SubSeq(lines, k1, i)

C4_Witness ==
    /\ ClosingFenceDone
    /\ pass = 1
    /\ \E k \in (OpeningOf(i) + 1)..(i - 1) :
          /\ GenStarts(lines[k]) # {}
          /\ SubSeq(lines[k], 1, 2) = <<"-", " ">>

\* a line that begins with "- " or with digits and ". "
ListLine(l) ==
    \/ Len(l) >= 2 /\ l[1] = "-" /\ l[2] = " "
    \/ \E n \in 1..(Len(l) - 2) :
          /\ \A k \in 1..n : l[k] \in Digit
          /\ l[n + 1] = "."
          /\ l[n + 2] = " "

Blank(l) == \A k \in 1..Len(l) : l[k] \in Whitespace

\* non-empty after trimming, no list item, no header
Paragraph(l) == ~Blank(l) /\ ~ListLine(l) /\ l[1] # "#"

\* the output ends: non-blank line, one empty line, the line just consumed
BlankDirectlyBefore ==
    LET n == Len(processed_lines)
    IN  /\ n >= 3
        /\ processed_lines[n - 1] = <<>>
        /\ ~Blank(processed_lines[n - 2])
        /\ ListLine(processed_lines[n])

\* the loop has just consumed list line i, which follows a paragraph line
ListAfterParagraphDone ==
    /\ pc = "loop"
    /\ i >= 2
    /\ ListLine(lines[i])
    /\ Paragraph(lines[i - 1])

\* C5 (as claimed): every list line of the input that follows a line which
\* is non-empty after trimming, no list item and no header has exactly one
\* empty line directly before it in the output.
C5_BlankBeforeEveryListLine ==
    ListAfterParagraphDone => BlankDirectlyBefore

\* C5 (amended): every list line of the input outside fenced code that
\* follows a line which is non-empty after trimming, no list item and no
\* header has exactly one empty line directly before it in the output.
C5_BlankBeforeListOutsideFence ==
    (ListAfterParagraphDone /\ FencesBefore(i) % 2 = 0)
        => BlankDirectlyBefore

C5_Witness ==
    /\ ListAfterParagraphDone
    /\ FencesBefore(i) % 2 = 0
    /\ pass = 1
    /\ BlankDirectlyBefore

\* occurrences of three newlines in a row
TripleCount(s) ==
    Cardinality({k \in 1..(Len(s) - 2) : SubSeq(s, k, k + 2) = <<NL, NL, NL>>})

\* the loop is about to consume a list line that is the first line or
\* follows a blank line, a header or a list item
ListAfterOtherNext ==
    /\ pc = "loop"
    /\ i < Len(lines)
    /\ ListLine(lines[i + 1])
    /\ i = 0 \/ ~Paragraph(lines[i])

\* C6: a list line that is the first line, or whose preceding line is blank,
\* starts with '#' or is a list item of either kind, adds exactly one line
\* to the output (no blank line is inserted before it); and the output holds
\* no more runs of three newlines than the text it was made from.
C6_NoBlankInserted ==
    /\ [][ListAfterOtherNext
            => Len(processed_lines') = Len(processed_lines) + 1]_vars
    /\ [](pc = "returned" => TripleCount(result) <= TripleCount(md_content))

\* a numbered item directly after a bullet item has been consumed
C6_Witness ==
    /\ pc = "loop"
    /\ i >= 2
    /\ pass = 1
    /\ is_bullet(lines[i - 1])
    /\ is_numbered(lines[i])
    /\ FencesBefore(i) % 2 = 0
    /\ Len(processed_lines) = i

\* ============================================ the collector and the run
\* a direct call of get_md_files on a directory has returned
CollectedFromDir ==
    /\ rpc = "called"
    /\ input_path \in fs.dir

\* C7 (as claimed): the list get_md_files returns for a directory, read as
\* full path strings, is in ascending string order, recursive or not.
C7_SortedAsStrings ==
    CollectedFromDir
        => \A a \in 1..Len(collected) : \A b \in (a + 1)..Len(collected) :
              StrLess(path_str(collected[a]), path_str(collected[b]))

\* the extension test get_md_files applies to a single file path
MdExtension(nm) == lower(suffix(nm)) = <<".", "m", "d">>

\* the regular files at or beneath the path that pass that test
MarkdownFilesAt(path, rec) ==
    IF path \in fs.file
    THEN IF MdExtension(path_name(path)) THEN {path} ELSE {}
    ELSE {f \in fs.file :
            /\ Len(f) > Len(path)
            /\ SubSeq(f, 1, Len(path)) = path
            /\ rec \/ Len(f) = Len(path) + 1
            /\ MdExtension(path_name(f))}

\* C8 (as claimed): get_md_files returns, each once, exactly the regular
\* files at (file path) or beneath (directory; direct children only when
\* not recursive) the path that pass the single-file extension test.
C8_ExactlyMarkdownFiles ==
    rpc = "called"
        => /\ {collected[n] : n \in 1..Len(collected)}
                = MarkdownFilesAt(input_path, recursive)
           /\ Len(collected) = Cardinality(MarkdownFilesAt(input_path, recursive))

\* main is running or has ended
MainRun == rpc \in {"main", "start", "collect", "convert", "gen_done", "exited"}

\* the two fatal conditions
NoInput == ~exists(input_path)
NoMarkdown == get_md_files(input_path, TRUE) = <<>>

FirstGen == IF fmt = "epub" THEN "epub" ELSE "pdf"

Requested ==
    CASE fmt = "pdf" -> <<"pdf">>
      [] fmt = "epub" -> <<"epub">>
      [] fmt = "both" -> <<"pdf", "epub">>

\* C9: when the input path does not exist or holds no markdown file, the
\* run never makes the output directory, converts a file or writes an
\* artifact, and it ends in the first generator with one diagnostic and a
\* non-zero status; otherwise it ends with status zero, for every format.
C9_FatalBeforeAnyOutput ==
    MainRun
        => /\ (NoInput \/ NoMarkdown)
                => /\ ~out_dir_made
                   /\ artifacts = <<>>
                   /\ returned = <<>>
                   /\ sections = <<>>
                   /\ file_idx = 0
           /\ rpc = "exited"
                => IF NoInput \/ NoMarkdown
                   THEN /\ exit_status # 0
                        /\ gen = FirstGen
                        /\ stdout = IF NoInput
                                    THEN <<"Error: Path not found">>
                                    ELSE <<"Error: No markdown files found">>
                   ELSE /\ exit_status = 0
                        /\ Len(artifacts) = Len(Requested)

\* format both, an existing directory without markdown: ended in generate_pdf
C9_Witness ==
    /\ rpc = "exited"
    /\ fmt = "both"
    /\ input_path \in fs.dir
    /\ NoMarkdown
    /\ exit_status = 1
    /\ gen = "pdf"

\* the text of the version file without its leading and trailing whitespace
TrimmedVersion ==
    LET t == version_file.text
    IN  CHOOSE v \in {SubSeq(t, a, b) : a \in 1..(Len(t) + 1), b \in 0..Len(t)} :
            \E a \in 1..(Len(t) + 1) : \E b \in (a - 1)..Len(t) :
                /\ v = SubSeq(t, a, b)
                /\ \A n \in 1..(a - 1) : t[n] \in Whitespace
                /\ \A n \in (b + 1)..Len(t) : t[n] \in Whitespace
                /\ a <= b => (t[a] \notin Whitespace /\ t[b] \notin Whitespace)

ExpectedVersion ==
    IF version_file.exists THEN TrimmedVersion ELSE <<"0", ".", "0">>

\* the stem of a markdown file (its name without the three characters of
\* its extension) or the name of the directory
ExpectedName ==
    LET nm == input_path[Len(input_path)]
    IN  IF input_path \in fs.file THEN SubSeq(nm, 1, Len(nm) - 3) ELSE nm

ExpectedFile(kind) ==
    output_dir \o
      << ExpectedName \o <<"_", "v">> \o ExpectedVersion \o <<".">>
           \o (IF kind = "pdf" THEN <<"p", "d", "f">> ELSE <<"e", "p", "u", "b">>) >>

LoopState == pc \in {"loop", "returned"}

\* b is a with some of its '<' written &lt; and some of its '>' written &gt;
RECURSIVE EscapesFrom(_, _, _, _)
EscapesFrom(a, m, b, n) ==
    IF m > Len(a) THEN n > Len(b)
    ELSE IF n > Len(b) THEN FALSE
    ELSE IF a[m] = b[n] THEN EscapesFrom(a, m + 1, b, n + 1)
    ELSE /\ n + 3 <= Len(b)
         /\ \/ a[m] = "<" /\ SubSeq(b, n, n + 3) = <<"&", "l", "t", ";">>
            \/ a[m] = ">" /\ SubSeq(b, n, n + 3) = <<"&", "g", "t", ";">>
         /\ EscapesFrom(a, m + 1, b, n + 4)

EscapesTo(a, b) == EscapesFrom(a, 1, b, 1)

\* the output from position n on is the consumed input lines from k on, in
\* order, each unchanged or escaped, with only empty lines added
RECURSIVE AlignedFrom(_, _)
AlignedFrom(k, n) ==
    IF k > i THEN n > Len(processed_lines)
    ELSE /\ n <= Len(processed_lines)
         /\ \/ /\ EscapesTo(lines[k], processed_lines[n])
               /\ AlignedFrom(k + 1, n + 1)
            \/ /\ processed_lines[n] = <<>>
               /\ AlignedFrom(k, n + 1)

\* a list line outside fenced code that follows a paragraph line
InsertionAt(k) ==
    /\ k >= 2
    /\ ListLine(lines[k])
    /\ Paragraph(lines[k - 1])
    /\ FencesBefore(k) % 2 = 0

Insertions(n) == Cardinality({k \in 1..n : InsertionAt(k)})

\* C11: preprocess_markdown deletes and reorders no line: the output is the
\* input lines in order, each unchanged or changed only by writing '<' as
\* &lt; and '>' as &gt;, with only empty lines added; it has as many lines
\* as the input plus one per insertion; the returned text splits into just
\* these lines, and the empty text gives the empty text.
C11_LinesKeptInOrder ==
    LoopState
        => /\ AlignedFrom(1, 1)
           /\ Len(processed_lines) = i + Insertions(i)
           /\ pc = "returned"
                => /\ i = Len(lines)
                   /\ split(result) = processed_lines
                   /\ md_content = <<>> => result = <<>>

\* a blank line was inserted and a line was escaped
C11_Witness ==
    /\ pc = "returned"
    /\ pass = 1
    /\ Len(processed_lines) > Len(lines)
    /\ \E k \in 1..Len(processed_lines) : "&" \in Chars(processed_lines[k])

\* ================================================= the normalizer, fences
\* after leading whitespace the line goes on with three backticks
StartsFence(l) ==
    \E n \in 0..Len(l) :
        /\ \A k \in 1..n : l[k] \in Whitespace
        /\ n + 3 <= Len(l)
        /\ \A k \in (n + 1)..(n + 3) : l[k] = BT

\* the fence lines among the first n input lines
FenceLinesUpTo(n) == {j \in 1..n : StartsFence(lines[j])}

OddFences(n) == Cardinality(FenceLinesUpTo(n)) % 2 = 1

\* the last n lines of the output
OutputTail(n) ==
    SubSeq(processed_lines, Len(processed_lines) - n + 1, Len(processed_lines))

\* C12: while the loop runs the flag is the parity of the fence lines
\* consumed so far; a fence line is emitted unchanged; and when that parity
\* is odd every line from the last fence on was emitted unchanged with
\* nothing inserted, to the end of the input when the fence is never
\* closed, in which case the function still returns the joined lines.
C12_FlagIsFenceParity ==
    LoopState
        => /\ in_code_block = OddFences(i)
           /\ i >= 1 /\ StartsFence(lines[i])
                => Last(processed_lines) = lines[i]
           /\ OddFences(i)
                => LET k0 == Max(FenceLinesUpTo(i))
                   IN  /\ Len(processed_lines) >= i - k0 + 1
                       /\ OutputTail(i - k0 + 1) = SubSeq(lines, k0, i)
           /\ pc = "returned" => result = join(processed_lines)

\* returned inside a fence that is never closed, after a list line with a
\* generic that follows a paragraph line inside it
C12_Witness ==
    /\ pc = "returned"
    /\ pass = 1
    /\ OddFences(Len(lines))
    /\ \E k \in (Max(FenceLinesUpTo(Len(lines))) + 2)..Len(lines) :
          /\ ListLine(lines[k])
          /\ Paragraph(lines[k - 1])
          /\ GenStarts(lines[k]) # {}

\* ================================================= the normalizer, applied twice
\* the number of lines of a text: one more than its line feeds
LineCount(text) == Cardinality({k \in 1..Len(text) : text[k] = NL}) + 1

\* the second application has returned
SecondReturned == pc = "returned" /\ pass = 2

\* C13: applying preprocess_markdown to its own output inserts no further
\* blank line: the second result has as many lines as the first.
C13_NoFurtherInsertion ==
    SecondReturned
        => /\ md_content = first_out
           /\ LineCount(result) = LineCount(first_out)

\* the first application inserted a blank line, the second has returned
C13_Witness ==
    /\ SecondReturned
    /\ LineCount(first_out) > LineCount(input)

\* ================================================= the run, order of work
\* the files get_md_files returns for the input path
CollectedFiles == get_md_files(input_path, TRUE)

Conversion(f) == convert_md_to_html(read_text(f))

\* the section (PDF) or chapter (EPUB) of the n-th collected file
SectionOf(g, n) ==
    IF g = "pdf"
    THEN <<"lesson", Conversion(CollectedFiles[n])>>
    ELSE <<"chapter", n, Conversion(CollectedFiles[n])>>

SectionsOfFirst(g, n) == [k \in 1..n |-> SectionOf(g, k)]

\* what the artifact of kind g holds: for EPUB the navigation entry first
BodyOf(g) ==
    IF g = "pdf"
    THEN SectionsOfFirst(g, Len(CollectedFiles))
    ELSE << <<"nav">> >> \o SectionsOfFirst(g, Len(CollectedFiles))

\* the place of the running generator among the requested ones
GenPlace == IF gen = "epub" /\ fmt = "both" THEN 2 ELSE 1

\* C14: while a generator converts, its sections are the conversions of
\* the first file_idx collected files, in get_md_files order, one section
\* per file; each artifact is written once, in the requested order, and
\* holds the sections of all collected files in that order (after the
\* navigation entry for EPUB); a generator that has not finished has not
\* written its artifact, and with both formats the PDF artifact is written
\* before the EPUB generator starts.
C14_ConvertedInOrder ==
    MainRun
        => /\ rpc = "convert"
                => /\ file_idx <= Len(CollectedFiles)
                   /\ sections = SectionsOfFirst(gen, file_idx)
           /\ Len(artifacts) <= Len(Requested)
           /\ \A n \in 1..Len(artifacts) :
                 /\ artifacts[n].kind = Requested[n]
                 /\ artifacts[n].body = BodyOf(Requested[n])
           /\ rpc \in {"start", "collect", "convert"}
                => Len(artifacts) = GenPlace - 1
           /\ rpc = "gen_done" => Len(artifacts) = GenPlace

\* both artifacts written from two or more files, the run has ended
C14_Witness ==
    /\ rpc = "exited"
    /\ exit_status = 0
    /\ fmt = "both"
    /\ Len(CollectedFiles) >= 2
    /\ Len(artifacts) = 2
    /\ artifacts[2].body[3] = SectionOf("epub", 2)

====
